---- MODULE Spec2Model ----
(***************************************************************************)
(* Course catalog of EWFinalProject.cpp: the loader, the validator, the    *)
(* two queries and the menu loop of main.                                  *)
(*                                                                         *)
(* A std::string is a sequence of byte values.  A state of Spec is the     *)
(* program blocked on a read of std::cin (or returned from main); out and  *)
(* err hold the bytes the last step wrote to std::cout and std::cerr.      *)
(***************************************************************************)
EXTENDS Integers, Sequences, FiniteSets

VARIABLES
    pc,               \* where main is blocked: the read it is waiting on
    userChoice,       \* the value the last `std::cin >> userChoice` produced
    filePath,         \* main's filePath
    courseNumber,     \* main's courseNumber
    coursesHashTable, \* main's coursesHashTable
    out,              \* bytes written to std::cout by the last step
    err,              \* bytes written to std::cerr by the last step
    source,           \* history: what the last std::ifstream(filePath) opened
    stale,            \* history: the table the last load replaced held a key
                      \* that the loaded source does not define
    ret               \* the value the last validateHashTable call returned

vars ==
    << pc, userChoice, filePath, courseNumber, coursesHashTable, out, err,
       source, stale, ret >>

----------------------------------------------------------------------------
(* Bytes *)

Newline == 10
Space == 32
Comma == 44

\* "A", "a", "AB", "T", "U", "f" as byte strings
sA == << 65 >>
sa == << 97 >>
sAB == << 65, 66 >>
sT == << 84 >>
sU == << 85 >>
sf == << 102 >>

----------------------------------------------------------------------------
(* Text the program writes *)

\* 'Error: Unable to open file.\n' (line 41)
ErrOpen ==
    << 69, 114, 114, 111, 114, 58, 32, 85, 110, 97, 98, 108, 101, 32, 116, 111, 32, 111, 112, 101, 110, 32, 102, 105, 108, 101, 46, 10 >>

\* 'Error: Line has less than 2 parameters.\n' (line 60)
ErrLine ==
    << 69, 114, 114, 111, 114, 58, 32, 76, 105, 110, 101, 32, 104, 97, 115, 32, 108, 101, 115, 115, 32, 116, 104, 97, 110, 32, 50, 32, 112, 97, 114, 97, 109, 101, 116, 101, 114, 115, 46, 10 >>

\* 'Error: Prerequisite ' (line 103)
ErrPrereqHead ==
    << 69, 114, 114, 111, 114, 58, 32, 80, 114, 101, 114, 101, 113, 117, 105, 115, 105, 116, 101, 32 >>

\* ' does not exist as a course.\n' (line 103)
ErrPrereqTail ==
    << 32, 100, 111, 101, 115, 32, 110, 111, 116, 32, 101, 120, 105, 115, 116, 32, 97, 115, 32, 97, 32, 99, 111, 117, 114, 115, 101, 46, 10 >>

\* 'Course Number: ' (line 123)
NumberLabel ==
    << 67, 111, 117, 114, 115, 101, 32, 78, 117, 109, 98, 101, 114, 58, 32 >>

\* 'Course Title: ' (line 124)
TitleLabel ==
    << 67, 111, 117, 114, 115, 101, 32, 84, 105, 116, 108, 101, 58, 32 >>

\* 'Prerequisites: ' (line 125)
PrereqLabel ==
    << 80, 114, 101, 114, 101, 113, 117, 105, 115, 105, 116, 101, 115, 58, 32 >>

\* 'None' (line 128)
NoneText ==
    << 78, 111, 110, 101 >>

\* 'Error: Course ' (line 136)
ErrCourseHead ==
    << 69, 114, 114, 111, 114, 58, 32, 67, 111, 117, 114, 115, 101, 32 >>

\* ' not found.\n' (line 136)
ErrCourseTail ==
    << 32, 110, 111, 116, 32, 102, 111, 117, 110, 100, 46, 10 >>

\* 'Courses in the Computer Science department:\n' (line 157)
ListHeader ==
    << 67, 111, 117, 114, 115, 101, 115, 32, 105, 110, 32, 116, 104, 101, 32, 67, 111, 109, 112, 117, 116, 101, 114, 32, 83, 99, 105, 101, 110, 99, 101, 32, 100, 101, 112, 97, 114, 116, 109, 101, 110, 116, 58, 10 >>

\* ': ' (line 160)
Separator ==
    << 58, 32 >>

\* 'Menu:\n1. Load file\n2. Print List\n3. Search for Course\n9. Exit\nEnter your choice: ' (line 179)
Menu ==
    << 77, 101, 110, 117, 58, 10, 49, 46, 32, 76, 111, 97, 100, 32, 102, 105, 108, 101, 10, 50, 46, 32, 80, 114, 105, 110, 116, 32, 76, 105, 115, 116, 10, 51, 46, 32, 83, 101, 97, 114, 99, 104, 32, 102, 111, 114, 32, 67, 111, 117, 114, 115, 101, 10, 57, 46, 32, 69, 120, 105, 116, 10, 69, 110, 116, 101, 114, 32, 121, 111, 117, 114, 32, 99, 104, 111, 105, 99, 101, 58, 32 >>

\* 'Enter filepath to load: ' (line 196)
PromptFile ==
    << 69, 110, 116, 101, 114, 32, 102, 105, 108, 101, 112, 97, 116, 104, 32, 116, 111, 32, 108, 111, 97, 100, 58, 32 >>

\* 'Enter course number to search: ' (line 210)
PromptCourse ==
    << 69, 110, 116, 101, 114, 32, 99, 111, 117, 114, 115, 101, 32, 110, 117, 109, 98, 101, 114, 32, 116, 111, 32, 115, 101, 97, 114, 99, 104, 58, 32 >>

\* 'Goodbye!\n' (line 217)
Goodbye ==
    << 71, 111, 111, 100, 98, 121, 101, 33, 10 >>

\* 'Invalid choice. Please try again.\n' (line 222)
InvalidText ==
    << 73, 110, 118, 97, 108, 105, 100, 32, 99, 104, 111, 105, 99, 101, 46, 32, 80, 108, 101, 97, 115, 101, 32, 116, 114, 121, 32, 97, 103, 97, 105, 110, 46, 10 >>

----------------------------------------------------------------------------
(* Inputs *)

\* Longest file, in lines.
MaxLines == 2

\* The lines files are made of:
\*   ""  "A"  "A,"  ",T"  "A,T"  "A,U,a"  "a,T,A"  "AB,,A,a"
SampleLines ==
    { << >>,
      sA,
      sA \o << Comma >>,
      << Comma >> \o sT,
      sA \o << Comma >> \o sT,
      sA \o << Comma >> \o sU \o << Comma >> \o sa,
      sa \o << Comma >> \o sT \o << Comma >> \o sA,
      sAB \o << Comma, Comma >> \o sA \o << Comma >> \o sa }

LineSeqs == UNION { [1..n -> SampleLines] : n \in 0..MaxLines }

RECURSIVE FileBytes(_)
\* The bytes of the text file whose lines are ls, each ended by a newline.
FileBytes(ls) ==
    IF ls = << >> THEN << >>
    ELSE Head(ls) \o << Newline >> \o FileBytes(Tail(ls))

\* The outcome of std::ifstream file(filePath): not open, or open on some bytes.
NoFile == [open |-> FALSE, bytes |-> << >>]

Sources ==
    { NoFile } \cup { [open |-> TRUE, bytes |-> FileBytes(ls)] : ls \in LineSeqs }

\* What the user types as a file path: nothing, or "f".
Paths == { << >>, sf }

\* The empty path names no file; any other path names whatever the file system
\* holds under it when the stream is constructed.
Open(path) == IF path = << >> THEN { NoFile } ELSE Sources

\* What the user types as a course number (one whitespace-free token).
SearchTokens == { sA, sAB }

\* Numbers typed at the menu that are none of 1, 2, 3, 9.
Unrecognised == { 4 }

Perms(S) ==
    { s \in [1..Cardinality(S) -> S] : \A e \in S : \E i \in DOMAIN s : s[i] = e }

----------------------------------------------------------------------------
(* Library operations *)

\* Index of the first d in s, or 0.
FirstIndex(s, d) ==
    IF \E i \in DOMAIN s : s[i] = d
    THEN CHOOSE i \in DOMAIN s : s[i] = d /\ \A j \in 1..(i - 1) : s[j] # d
    ELSE 0

RECURSIVE Split(_, _)
\* The strings that `while (std::getline(stream, piece, d))` yields on a stream
\* holding s: getline fails, and the loop ends, when it meets end of stream
\* before extracting anything.
Split(s, d) ==
    IF s = << >> THEN << >>
    ELSE LET i == FirstIndex(s, d)
         IN IF i = 0 THEN << s >>
            ELSE << SubSeq(s, 1, i - 1) >> \o Split(SubSeq(s, i + 1, Len(s)), d)

RECURSIVE StrLess(_, _)
\* std::string operator< : lexicographic on bytes.
StrLess(s, t) ==
    IF t = << >> THEN FALSE
    ELSE IF s = << >> THEN TRUE
    ELSE IF s[1] # t[1] THEN s[1] < t[1]
    ELSE StrLess(Tail(s), Tail(t))

RECURSIVE Insert(_, _)
\* x put before the first element of the sorted s that it is less than.
Insert(x, s) ==
    IF s = << >> THEN << x >>
    ELSE IF StrLess(x, s[1]) THEN << x >> \o s
    ELSE << s[1] >> \o Insert(x, Tail(s))

\* Variant: the vector is left in iteration order.
Unsorted(v) == v

RECURSIVE Sort(_)
\* std::sort(v.begin(), v.end())
Sort(v) ==
    IF v = << >> THEN << >> ELSE Insert(Head(v), Sort(Tail(v)))

\* HashTable()
EmptyTable == [k \in { } |-> k]

\* Variant: table.insert({key, course}), which keeps an existing record.
StoreIfAbsent(table, key, course) ==
    [k \in DOMAIN table \cup { key } |->
        IF k \in DOMAIN table THEN table[k] ELSE course]

\* table[key] = course
Store(table, key, course) ==
    [k \in DOMAIN table \cup { key } |-> IF k = key THEN course ELSE table[k]]

\* s with its lower-case letters in upper case.
Fold(s) == [i \in DOMAIN s |-> IF s[i] >= 97 THEN s[i] - 32 ELSE s[i]]

\* Variant: a lookup that ignores case.
FindFolded(table, key) ==
    IF \E k \in DOMAIN table : Fold(k) = Fold(key)
    THEN << CHOOSE k \in DOMAIN table : Fold(k) = Fold(key) >>
    ELSE << >>

\* table.find(key): << the key found >>, or << >> for end().
Find(table, key) == IF key \in DOMAIN table THEN << key >> ELSE << >>

----------------------------------------------------------------------------
(* loadCoursesToHashTable *)

\* Variant: tokens.size() < 3
MalformedBelow3(tokens) == Len(tokens) < 3

\* tokens.size() < 2
Malformed(tokens) == Len(tokens) < 2

\* The Course built from the tokens of an accepted line.
MakeCourse(tokens) ==
    [number |-> tokens[1],
     title |-> tokens[2],
     prerequisites |-> SubSeq(tokens, 3, Len(tokens))]

RECURSIVE LoadLines(_, _, _)
\* The loop over the lines of the file.
LoadLines(lines, table, errs) ==
    IF lines = << >> THEN [table |-> table, err |-> errs]
    ELSE LET tokens == Split(Head(lines), Comma)
         IN IF Malformed(tokens)
            THEN LoadLines(Tail(lines), table, errs \o ErrLine)
            ELSE LoadLines(Tail(lines),
                           Store(table, tokens[1], MakeCourse(tokens)),
                           errs)

\* The table returned and the bytes written to std::cerr.
loadCoursesToHashTable(src) ==
    IF ~src.open THEN [table |-> EmptyTable, err |-> ErrOpen]
    ELSE LoadLines(Split(src.bytes, Newline), EmptyTable, << >>)

\* loadCoursesToHashTable on every source, computed once.
Loaded == [src \in Sources |-> loadCoursesToHashTable(src)]

----------------------------------------------------------------------------
(* validateHashTable *)

RECURSIVE FirstMissing(_, _)
\* << the first prerequisite that is not in courseNumbers >>, or << >>.
FirstMissing(prerequisites, courseNumbers) ==
    IF prerequisites = << >> THEN << >>
    ELSE IF Head(prerequisites) \notin courseNumbers
         THEN << Head(prerequisites) >>
         ELSE FirstMissing(Tail(prerequisites), courseNumbers)

RECURSIVE CheckCourses(_, _, _)
\* The second loop, over the courses in iteration order.
CheckCourses(table, order, courseNumbers) ==
    IF order = << >> THEN [ret |-> TRUE, err |-> << >>]
    ELSE LET m == FirstMissing(table[Head(order)].prerequisites, courseNumbers)
         IN IF m # << >>
            THEN [ret |-> FALSE, err |-> ErrPrereqHead \o m[1] \o ErrPrereqTail]
            ELSE CheckCourses(table, Tail(order), courseNumbers)

\* Variant: `return true` inside the loop, after the first course.
validateFirstOnly(table, order) ==
    CheckCourses(table,
                 SubSeq(order, 1, IF order = << >> THEN 0 ELSE 1),
                 { order[i] : i \in DOMAIN order })

\* order is the order in which the unordered_map is iterated.
validateHashTable(table, order) ==
    CheckCourses(table, order, { order[i] : i \in DOMAIN order })

----------------------------------------------------------------------------
(* searchCourseInHashTable *)

RECURSIVE SpaceJoinReversed(_)
\* Variant: the prerequisites written last to first.
SpaceJoinReversed(prerequisites) ==
    IF prerequisites = << >> THEN << >>
    ELSE SpaceJoinReversed(Tail(prerequisites))
         \o Head(prerequisites) \o << Space >>

RECURSIVE SpaceJoin(_)
\* The loop that writes each prerequisite and a space.
SpaceJoin(prerequisites) ==
    IF prerequisites = << >> THEN << >>
    ELSE Head(prerequisites) \o << Space >> \o SpaceJoin(Tail(prerequisites))

\* What follows "Prerequisites: ".
PrereqText(prerequisites) ==
    IF prerequisites = << >> THEN NoneText \o << Newline >>
    ELSE SpaceJoin(prerequisites) \o << Newline >>

\* The bytes written to std::cout and to std::cerr.
searchCourseInHashTable(table, number) ==
    LET it == Find(table, number)
    IN IF it # << >>
       THEN LET course == table[it[1]]
            IN [out |-> NumberLabel \o course.number \o << Newline >>
                        \o TitleLabel \o course.title \o << Newline >>
                        \o PrereqLabel \o PrereqText(course.prerequisites),
                err |-> << >>]
       ELSE [out |-> << >>,
             err |-> ErrCourseHead \o number \o ErrCourseTail]

----------------------------------------------------------------------------
(* PrintAllCourses *)

RECURSIVE ListLines(_, _)
\* The loop that writes "number: title" for each course number.
ListLines(table, numbers) ==
    IF numbers = << >> THEN << >>
    ELSE LET course == table[Head(numbers)]
         IN course.number \o Separator \o course.title \o << Newline >>
            \o ListLines(table, Tail(numbers))

\* order is the order in which the unordered_map is iterated; the bytes written
\* to std::cout.
PrintAllCourses(table, order) == ListHeader \o ListLines(table, Sort(order))

----------------------------------------------------------------------------
(* main.  Every read of std::cin finds input: end of input is not part of   *)
(* the model.                                                                *)

\* The state at the first read of std::cin: the load of the empty filePath has
\* failed and the menu has been written.
Init ==
    /\ pc = "AwaitingMenuChoice"
    /\ userChoice = 0
    /\ filePath = << >>
    /\ courseNumber = << >>
    /\ coursesHashTable = Loaded[NoFile].table
    /\ out = Menu
    /\ err = Loaded[NoFile].err
    /\ source = NoFile
    /\ stale = FALSE
    /\ ret = TRUE

\* Variant: the records returned are added to those already held.
Merge(old, new) ==
    [k \in DOMAIN old \cup DOMAIN new |->
        IF k \in DOMAIN new THEN new[k] ELSE old[k]]

\* coursesHashTable = <the table returned>
Assign(old, new) == new

\* Choice 1 is read: the prompt is written.
ChooseLoad ==
    /\ pc = "AwaitingMenuChoice"
    /\ userChoice' = 1
    /\ pc' = "AwaitingFilePath"
    /\ out' = PromptFile
    /\ err' = << >>
    /\ UNCHANGED << filePath, courseNumber, coursesHashTable, source, stale,
                    ret >>

\* The path line is read, echoed and loaded; the menu is written again.
EnterFilePath ==
    /\ pc = "AwaitingFilePath"
    /\ \E path \in Paths : \E src \in Open(path) :
          LET r == Loaded[src]
          IN /\ filePath' = path
             /\ coursesHashTable' = Assign(coursesHashTable, r.table)
             /\ out' = path \o Menu
             /\ err' = r.err
             /\ source' = src
             /\ stale' = (DOMAIN coursesHashTable \ DOMAIN r.table # { })
    /\ pc' = "AwaitingMenuChoice"
    /\ UNCHANGED << userChoice, courseNumber, ret >>

\* Choice 2 is read: the list is written, then the menu.
ChoosePrint ==
    /\ pc = "AwaitingMenuChoice"
    /\ userChoice' = 2
    /\ \E order \in Perms(DOMAIN coursesHashTable) :
          out' = PrintAllCourses(coursesHashTable, order) \o Menu
    /\ err' = << >>
    /\ UNCHANGED << pc, filePath, courseNumber, coursesHashTable, source, stale,
                    ret >>

\* Choice 3 is read: the prompt is written.
ChooseSearch ==
    /\ pc = "AwaitingMenuChoice"
    /\ userChoice' = 3
    /\ pc' = "AwaitingCourseNumber"
    /\ out' = PromptCourse
    /\ err' = << >>
    /\ UNCHANGED << filePath, courseNumber, coursesHashTable, source, stale,
                    ret >>

\* The course number is read and searched for; the menu is written again.
EnterCourseNumber ==
    /\ pc = "AwaitingCourseNumber"
    /\ \E number \in SearchTokens :
          LET r == searchCourseInHashTable(coursesHashTable, number)
          IN /\ courseNumber' = number
             /\ out' = r.out \o Menu
             /\ err' = r.err
    /\ pc' = "AwaitingMenuChoice"
    /\ UNCHANGED << userChoice, filePath, coursesHashTable, source, stale,
                    ret >>

\* Choice 9 is read: main returns 0.
ChooseExit ==
    /\ pc = "AwaitingMenuChoice"
    /\ userChoice' = 9
    /\ pc' = "Exited"
    /\ out' = Goodbye
    /\ err' = << >>
    /\ UNCHANGED << filePath, courseNumber, coursesHashTable, source, stale,
                    ret >>

\* Variant: the else branch returns from main.
InvalidChoiceReturns ==
    /\ pc = "AwaitingMenuChoice"
    /\ \E n \in Unrecognised : userChoice' = n
    /\ pc' = "Exited"
    /\ out' = InvalidText
    /\ err' = << >>
    /\ UNCHANGED << filePath, courseNumber, coursesHashTable, source, stale,
                    ret >>

\* A number that is no menu entry is read.
InvalidChoice ==
    /\ pc = "AwaitingMenuChoice"
    /\ \E n \in Unrecognised : userChoice' = n
    /\ out' = InvalidText \o Menu
    /\ err' = << >>
    /\ UNCHANGED << pc, filePath, courseNumber, coursesHashTable, source, stale,
                    ret >>

\* The extraction of an int fails: userChoice becomes 0, the stream is cleared
\* and the rest of the line is dropped.
NonNumericInput ==
    /\ pc = "AwaitingMenuChoice"
    /\ userChoice' = 0
    /\ out' = InvalidText \o Menu
    /\ err' = << >>
    /\ UNCHANGED << pc, filePath, courseNumber, coursesHashTable, source, stale,
                    ret >>

Next ==
    \/ ChooseLoad
    \/ EnterFilePath
    \/ ChoosePrint
    \/ ChooseSearch
    \/ EnterCourseNumber
    \/ ChooseExit
    \/ InvalidChoice
    \/ NonNumericInput

Spec == Init /\ [][Next]_vars

----------------------------------------------------------------------------
(* validateHashTable called on the tables loadCoursesToHashTable returns *)

\* A table that loadCoursesToHashTable has returned for some source.
InitValidate ==
    /\ pc = "ValidateCall"
    /\ userChoice = 0
    /\ filePath = sf
    /\ courseNumber = << >>
    /\ source \in Sources
    /\ coursesHashTable = Loaded[source].table
    /\ out = << >>
    /\ err = Loaded[source].err
    /\ stale = FALSE
    /\ ret = TRUE

\* validateHashTable(coursesHashTable) is called and returns.
Validate ==
    /\ pc = "ValidateCall"
    /\ pc' = "ValidateReturn"
    /\ \E order \in Perms(DOMAIN coursesHashTable) :
          LET r == validateHashTable(coursesHashTable, order)
          IN /\ ret' = r.ret
             /\ err' = r.err
    /\ UNCHANGED << userChoice, filePath, courseNumber, coursesHashTable, out,
                    source, stale >>

NextValidate == Validate

SpecValidate == InitValidate /\ [][NextValidate]_vars

----------------------------------------------------------------------------
(* The notions the properties are stated in, defined without the loops of   *)
(* the program: by the positions of the separators in a text.               *)

Keys == DOMAIN coursesHashTable

AtMenu == pc = "AwaitingMenuChoice"

\* The positions of separator d in s.
Seps(s, d) == { i \in DOMAIN s : s[i] = d }

\* The position of the n-th d in s; 0 before the first, Len(s) + 1 after the last.
SepAt(s, d, n) ==
    IF n = 0 THEN 0
    ELSE IF n > Cardinality(Seps(s, d)) THEN Len(s) + 1
    ELSE CHOOSE i \in Seps(s, d) :
            Cardinality({ j \in Seps(s, d) : j <= i }) = n

\* The n-th piece of s between separators d.
Piece(s, d, n) == SubSeq(s, SepAt(s, d, n - 1) + 1, SepAt(s, d, n) - 1)

\* The number of lines of a text: one per newline, and one more for a last
\* line that no newline ends.
LineCount(b) ==
    Cardinality(Seps(b, Newline))
    + (IF b # << >> /\ b[Len(b)] # Newline THEN 1 ELSE 0)

\* The lines of the source the last load opened.
SourceLines ==
    IF source.open
    THEN [n \in 1..LineCount(source.bytes) |-> Piece(source.bytes, Newline, n)]
    ELSE << >>

\* The number of comma-separated fields of a line: one more than its commas.
FieldCount(l) == Cardinality(Seps(l, Comma)) + 1

\* The number of fields of a line when an empty field after the last comma,
\* and the one empty field of an empty line, are not counted.
TokenCount(l) ==
    IF l = << >> THEN 0
    ELSE IF l[Len(l)] = Comma THEN FieldCount(l) - 1
    ELSE FieldCount(l)

IdOf(l) == Piece(l, Comma, 1)

\* The record a line describes.
RecordOf(l) ==
    [number |-> Piece(l, Comma, 1),
     title |-> Piece(l, Comma, 2),
     prerequisites |-> [i \in 1..(TokenCount(l) - 2) |-> Piece(l, Comma, i + 2)]]

\* The lines (by index) the load stores.
Stored == { n \in DOMAIN SourceLines : TokenCount(SourceLines[n]) >= 2 }

\* The lines (by index) with at least 2 comma-separated fields.
TwoFields == { n \in DOMAIN SourceLines : FieldCount(SourceLines[n]) >= 2 }

\* s before t in lexicographic byte order.
LexLess(s, t) ==
    \E i \in 1..Len(t) :
       /\ \A j \in 1..(i - 1) : j <= Len(s) /\ s[j] = t[j]
       /\ \/ i = Len(s) + 1
          \/ i <= Len(s) /\ s[i] < t[i]

\* The keys in strictly ascending order.
Ascending ==
    CHOOSE ks \in Perms(Keys) :
       \A i \in DOMAIN ks : \A j \in DOMAIN ks : i < j => LexLess(ks[i], ks[j])

RECURSIVE Concat(_)
Concat(ss) == IF ss = << >> THEN << >> ELSE Head(ss) \o Concat(Tail(ss))

RECURSIVE Repeat(_, _)
Repeat(s, n) == IF n = 0 THEN << >> ELSE s \o Repeat(s, n - 1)

\* The prerequisites of the records that are no key of the table.
Dangling ==
    UNION { { coursesHashTable[k].prerequisites[i] :
                i \in DOMAIN coursesHashTable[k].prerequisites } : k \in Keys }
    \ Keys

----------------------------------------------------------------------------
(* Properties *)

\* C1: validateHashTable returns true if and only if every prerequisite of
\* every record of the table is a key of the table; when it returns false it
\* has written exactly one diagnostic, naming a prerequisite that is no key,
\* whatever the order in which the table is iterated.
C1_ValidateIffNoDangling ==
    pc = "ValidateReturn" =>
       /\ ret = (Dangling = { })
       /\ ret => err = << >>
       /\ ~ret => \E p \in Dangling : err = ErrPrereqHead \o p \o ErrPrereqTail

\* C1 witness: validation has failed on a table with two different dangling
\* prerequisites.
C1_Witness ==
    /\ pc = "ValidateReturn"
    /\ ~ret
    /\ Cardinality(Dangling) >= 2

C3_LastWriteWins ==
    source.open =>
       /\ \A k \in Keys :
             \E n \in Stored :
                /\ IdOf(SourceLines[n]) = k
                /\ \A m \in Stored : IdOf(SourceLines[m]) = k => m <= n
                /\ coursesHashTable[k] = RecordOf(SourceLines[n])
       /\ (AtMenu /\ userChoice = 1) =>
             err = Repeat(ErrLine, Len(SourceLines) - Cardinality(Stored))

\* C3 witness: two stored lines carry the same identifier with different
\* titles and prerequisites, and no diagnostic was written.
C3_Witness ==
    /\ AtMenu /\ userChoice = 1 /\ source.open
    /\ Stored = { 1, 2 }
    /\ IdOf(SourceLines[1]) = IdOf(SourceLines[2])
    /\ RecordOf(SourceLines[1]).title # RecordOf(SourceLines[2]).title
    /\ RecordOf(SourceLines[1]).prerequisites
         # RecordOf(SourceLines[2]).prerequisites
    /\ err = << >>

\* C4: the table is always exactly what the most recently named source
\* defines, whatever it held before: empty when the source did not open, and
\* otherwise one record per identifier of a stored line, each the record of a
\* stored line of that source.
C4_LoadReplaces ==
    /\ ~source.open => Keys = { }
    /\ source.open =>
          /\ Keys = { IdOf(SourceLines[n]) : n \in Stored }
          /\ \A k \in Keys :
                \E n \in Stored : coursesHashTable[k] = RecordOf(SourceLines[n])

\* C4 witness: a load has replaced a table holding a key the new source does
\* not define by a table that is not empty.
C4_Witness ==
    /\ AtMenu /\ userChoice = 1
    /\ stale
    /\ source.open
    /\ Keys # { }

\* C5: after menu option 2, what was written is the header and then one
\* "identifier: title" line per record, the identifiers in strictly ascending
\* lexicographic order, whatever the order in which the table is iterated.
C5_ListSorted ==
    (AtMenu /\ userChoice = 2) =>
       out = ListHeader
             \o Concat([i \in 1..Cardinality(Keys) |->
                          Ascending[i] \o Separator
                          \o coursesHashTable[Ascending[i]].title
                          \o << Newline >>])
             \o Menu

\* C5 witness: the list of a table of two records has been written, the file
\* having given the greater identifier first.
C5_Witness ==
    /\ AtMenu /\ userChoice = 2
    /\ Cardinality(Keys) = 2
    /\ Stored = { 1, 2 }
    /\ LexLess(IdOf(SourceLines[2]), IdOf(SourceLines[1]))

\* C6: after a search for an identifier that is a key, what was written is
\* that identifier, the title stored for it, and its stored prerequisites in
\* their stored order, or "None" when it has none; nothing goes to std::cerr.
C6_SearchFound ==
    (AtMenu /\ userChoice = 3 /\ courseNumber \in Keys) =>
       LET course == coursesHashTable[courseNumber]
       IN /\ out = NumberLabel \o courseNumber \o << Newline >>
                   \o TitleLabel \o course.title \o << Newline >>
                   \o PrereqLabel
                   \o (IF Len(course.prerequisites) = 0 THEN NoneText
                       ELSE Concat([i \in DOMAIN course.prerequisites |->
                                      course.prerequisites[i] \o << Space >>]))
                   \o << Newline >>
                   \o Menu
          /\ err = << >>

\* C6 witness: a record with two different prerequisites has been found.
C6_Witness ==
    /\ AtMenu /\ userChoice = 3 /\ courseNumber \in Keys
    /\ Len(coursesHashTable[courseNumber].prerequisites) = 2
    /\ coursesHashTable[courseNumber].prerequisites[1]
         # coursesHashTable[courseNumber].prerequisites[2]

\* C7: a search for an identifier that is no key writes the not-found
\* diagnostic, writes no record, and leaves the table as it was.
C7_SearchAbsent ==
    [][(pc = "AwaitingCourseNumber" /\ courseNumber' \notin Keys) =>
          /\ err' = ErrCourseHead \o courseNumber' \o ErrCourseTail
          /\ out' = Menu
          /\ coursesHashTable' = coursesHashTable]_vars

\* C7 witness: a search has missed although the table holds a key that
\* differs from the identifier only in case.
C7_Witness ==
    /\ AtMenu /\ userChoice = 3 /\ courseNumber \notin Keys
    /\ \E k \in Keys : Fold(k) = Fold(courseNumber)
    /\ err # << >>

\* C8: main returns only when choice 9 is read at the menu; every other step
\* leaves main waiting for input, and every step that is not the reading of
\* choice 1 or 3 leaves it waiting for a menu choice.
C8_ExitOnlyOnNine ==
    [][/\ pc' = "Exited" => (pc = "Exited" \/ (AtMenu /\ userChoice' = 9))
       /\ (pc # "Exited" /\ ~(AtMenu /\ userChoice' \in { 1, 3, 9 }))
             => pc' = "AwaitingMenuChoice"]_vars

\* C8 witness: a search has failed and main waits for a menu choice again.
C8_Witness ==
    /\ AtMenu /\ userChoice = 3
    /\ err = ErrCourseHead \o courseNumber \o ErrCourseTail

\* C9 as stated: a line of the file is stored if and only if it has at least 2
\* comma-separated fields (the title may be empty); every other line is
\* skipped with one diagnostic and the load goes on.
C9_StoredIffTwoFields ==
    source.open =>
       /\ \A n \in TwoFields : IdOf(SourceLines[n]) \in Keys
       /\ Keys = { IdOf(SourceLines[n]) : n \in TwoFields }
       /\ (AtMenu /\ userChoice = 1) =>
             err = Repeat(ErrLine, Len(SourceLines) - Cardinality(TwoFields))

\* C10 as stated: every record of the table has a non-empty identifier, which
\* no other record has.
C10_IdentifierNonEmptyUnique ==
    /\ \A k \in Keys : coursesHashTable[k].number # << >>
    /\ \A k \in Keys : \A j \in Keys :
          coursesHashTable[k].number = coursesHashTable[j].number => k = j

====
